---- MODULE Spec2Model ----
(***************************************************************************)
(* cutr: the positional selection parser of src/cutr/src/lib.rs.           *)
(*                                                                         *)
(* A string (&str) is a sequence of characters, each character a one-      *)
(* element TLA+ string.  A message (the text of a Box<dyn Error>) is a     *)
(* sequence of text pieces: the literal parts of the format string and the *)
(* characters substituted for each "{}".                                   *)
(*                                                                         *)
(* parse_pos is modelled as the state machine the iterator chain           *)
(*     split.into_iter().map(closure).collect::<Result<Vec<_>,_>>()        *)
(* runs: collect pulls one token at a time through the closure, pushes an  *)
(* Ok range, and returns at the first Err.                                 *)
(***************************************************************************)
EXTENDS Integers, Sequences, FiniteSets

\* ------------------------------------------------------------------ bounds

\* Longest specification string drawn as input.
MaxLen == 5

\* Width of usize in bits, scaled down so that overflow of parse::<usize>()
\* happens on strings within MaxLen (the target's width is 64).
UsizeBits == 4

UsizeMax == 2^UsizeBits - 1

\* ---------------------------------------------------------------- alphabet

\* ASCII decimal digits that occur in the inputs.
AsciiDigits == {"0", "1", "2"}

\* A decimal digit outside ASCII (ARABIC-INDIC DIGIT THREE): the regex class
\* \d is Unicode-aware (\p{Nd}) and matches it, parse::<usize>() rejects it.
ArabicThree == "U+0663"

\* The characters the input strings are drawn from.
Alphabet == AsciiDigits \cup {ArabicThree, "-", ",", "+", "a"}

Strings(n) == UNION {[1..k -> Alphabet] : k \in 0..n}

\* ------------------------------------------------------------------ results

NoResult == [tag |-> "None", ranges |-> <<>>, msg |-> <<>>]

Ok(rs) == [tag |-> "Ok", ranges |-> rs, msg |-> <<>>]

Err(m) == [tag |-> "Err", ranges |-> <<>>, msg |-> m]

OkVal(n) == [ok |-> TRUE, val |-> n, err |-> <<>>]

ErrVal(e) == [ok |-> FALSE, val |-> 0, err |-> e]

\* A Range<usize>: start..end.
Range(s, e) == [start |-> s, end |-> e]

\* ------------------------------------------------------- library semantics

\* char::to_digit(10) on one byte of the input; -1 stands for None.
ToDigit(c) ==
    CASE c = "0" -> 0
      [] c = "1" -> 1
      [] c = "2" -> 2
      [] OTHER -> -1

\* Mutant of FromStrDigits: wrapping_mul and wrapping_add.
RECURSIVE FromStrDigitsWrapping(_, _)
FromStrDigitsWrapping(ds, result) ==
    IF ds = <<>> THEN OkVal(result)
    ELSE IF ToDigit(Head(ds)) < 0 THEN ErrVal("InvalidDigit")
    ELSE FromStrDigitsWrapping(Tail(ds),
             (result * 10 + ToDigit(Head(ds))) % (UsizeMax + 1))

\* The digit loop of usize::from_str: checked_mul by the radix and checked_add
\* of the digit; an invalid digit is reported before the overflow of its step.
RECURSIVE FromStrDigits(_, _)
FromStrDigits(ds, result) ==
    IF ds = <<>> THEN OkVal(result)
    ELSE IF ToDigit(Head(ds)) < 0 THEN ErrVal("InvalidDigit")
    ELSE IF result * 10 > UsizeMax THEN ErrVal("PosOverflow")
    ELSE IF result * 10 + ToDigit(Head(ds)) > UsizeMax THEN ErrVal("PosOverflow")
    ELSE FromStrDigits(Tail(ds), result * 10 + ToDigit(Head(ds)))

\* val.parse::<usize>(): empty input, a lone sign, an optional leading "+",
\* then the digit loop.
UsizeFromStr(val) ==
    IF val = <<>> THEN ErrVal("Empty")
    ELSE IF Len(val) = 1 /\ val[1] \in {"+", "-"} THEN ErrVal("InvalidDigit")
    ELSE IF val[1] = "+" THEN FromStrDigits(Tail(val), 0)
    ELSE FromStrDigits(val, 0)

\* Display of ParseIntError, as substituted for "{}".
ParseIntErrorText(kind) ==
    CASE kind = "Empty" -> <<"cannot parse integer from empty string">>
      [] kind = "InvalidDigit" -> <<"invalid digit found in string">>
      [] OTHER -> <<"number too large to fit in target type">>

DigitChar(d) ==
    CASE d = 0 -> "0" [] d = 1 -> "1" [] d = 2 -> "2" [] d = 3 -> "3"
      [] d = 4 -> "4" [] d = 5 -> "5" [] d = 6 -> "6" [] d = 7 -> "7"
      [] d = 8 -> "8" [] OTHER -> "9"

\* Display of an integer, as substituted for "{}": its decimal digits.
RECURSIVE ToString(_)
ToString(n) ==
    IF n < 10 THEN <<DigitChar(n)>>
    ELSE ToString(n \div 10) \o <<DigitChar(n % 10)>>

\* The regex class \d.
IsDigit(c) == c \in AsciiDigits \cup {ArabicThree}

AllDigits(s) == \A i \in 1..Len(s) : IsDigit(s[i])

\* Mutant of str_split: empty pieces are dropped.
RECURSIVE str_split_nonempty(_, _)
str_split_nonempty(s, sep) ==
    IF \A i \in 1..Len(s) : s[i] # sep THEN (IF s = <<>> THEN <<>> ELSE <<s>>)
    ELSE LET k == CHOOSE i \in 1..Len(s) :
                      s[i] = sep /\ \A j \in 1..(i - 1) : s[j] # sep
         IN (IF k = 1 THEN <<>> ELSE <<SubSeq(s, 1, k - 1)>>)
                \o str_split_nonempty(SubSeq(s, k + 1, Len(s)), sep)

\* str::split(sep): the pieces between the separators; a string without a
\* separator, the empty string included, is one piece.
RECURSIVE str_split(_, _)
str_split(s, sep) ==
    IF \A i \in 1..Len(s) : s[i] # sep THEN <<s>>
    ELSE LET k == CHOOSE i \in 1..Len(s) :
                      s[i] = sep /\ \A j \in 1..(i - 1) : s[j] # sep
         IN <<SubSeq(s, 1, k - 1)>> \o str_split(SubSeq(s, k + 1, Len(s)), sep)

\* ----------------------------------------------------------------- parse_pos

\* range_re: ^(\d+)-(\d+)$
range_re(r) ==
    \E k \in 1..Len(r) :
        /\ r[k] = "-"
        /\ k > 1 /\ AllDigits(SubSeq(r, 1, k - 1))
        /\ k < Len(r) /\ AllDigits(SubSeq(r, k + 1, Len(r)))

\* single_re: ^(\d+)$
single_re(r) == Len(r) >= 1 /\ AllDigits(r)

\* format!("illegal list value: \"{}\"", x)
IllegalListValue(x) == <<"illegal list value: \"">> \o x \o <<"\"">>

\* format!("First number in range ({}) must be lower than second number ({})")
FirstNumberMsg(start, end) ==
    <<"First number in range (">> \o ToString(start)
        \o <<") must be lower than second number (">> \o ToString(end) \o <<")">>

\* Mutant of parse_positive_int: the zero error quotes the input text.
parse_positive_int_quoting_input(val) ==
    LET p == UsizeFromStr(val)
    IN IF p.ok /\ p.val > 0 THEN OkVal(p.val)
       ELSE IF p.ok THEN ErrVal(IllegalListValue(val))
       ELSE ErrVal(IllegalListValue(ParseIntErrorText(p.err)))

\* Mutant of parse_positive_int: zero is accepted (n >= 0).
parse_positive_int_nonneg(val) ==
    LET p == UsizeFromStr(val)
    IN IF p.ok /\ p.val >= 0 THEN OkVal(p.val)
       ELSE IF p.ok THEN ErrVal(IllegalListValue(ToString(0)))
       ELSE ErrVal(IllegalListValue(ParseIntErrorText(p.err)))

parse_positive_int(val) ==
    LET p == UsizeFromStr(val)
    IN IF p.ok /\ p.val > 0 THEN OkVal(p.val)
       ELSE IF p.ok THEN ErrVal(IllegalListValue(ToString(0)))
       ELSE ErrVal(IllegalListValue(ParseIntErrorText(p.err)))

\* Mutant of OrderError: equal numbers are let through.
OrderErrorStrict(start, end) == start > end

\* The guard of the ordering error.
OrderError(start, end) == start >= end

\* Mutant of PairRange: the second number is excluded.
PairRangeExclusive(start, end) == Range(start - 1, end - 1)

\* Mutant of PairRange: the first number is used as the 0-based start.
PairRangeFromStart(start, end) == Range(start, end)

\* Ok(start - 1..end)
PairRange(start, end) == Range(start - 1, end)

\* Mutant of SingleRange: the 1-based number is used as the 0-based start.
SingleRangeShifted(init) == Range(init, init + 1)

\* Ok(init - 1..init)
SingleRange(init) == Range(init - 1, init)

\* Mutant of RangeBranch: the ordering is checked on the parsed numbers before
\* their positivity.
RangeBranchOrderFirst(r) ==
    LET res == str_split(r, "-")
        s == UsizeFromStr(res[1])
        e == UsizeFromStr(res[2])
        start == parse_positive_int(res[1])
        end == parse_positive_int(res[2])
    IN IF s.ok /\ e.ok /\ OrderError(s.val, e.val)
       THEN Err(FirstNumberMsg(s.val, e.val))
       ELSE IF ~start.ok THEN Err(start.err)
       ELSE IF ~end.ok THEN Err(end.err)
       ELSE Ok(<<PairRange(start.val, end.val)>>)

\* The branch of the closure taken when range_re matches.
RangeBranch(r) ==
    LET res == str_split(r, "-")
        start == parse_positive_int(res[1])
        end == parse_positive_int(res[2])
    IN IF ~start.ok THEN Err(start.err)
       ELSE IF ~end.ok THEN Err(end.err)
       ELSE IF OrderError(start.val, end.val)
            THEN Err(FirstNumberMsg(start.val, end.val))
       ELSE Ok(<<PairRange(start.val, end.val)>>)

\* The branch of the closure taken when single_re matches.
SingleBranch(r) ==
    LET init == parse_positive_int(r)
    IN IF ~init.ok THEN Err(init.err) ELSE Ok(<<SingleRange(init.val)>>)

\* Mutant of IllegalBranch: the text before the first hyphen is quoted.
IllegalBranchFirstPart(r) == Err(IllegalListValue(str_split(r, "-")[1]))

\* The last branch of the closure.
IllegalBranch(r) == Err(IllegalListValue(r))

\* The closure given to map: one token to Ok(range) or Err(message).
Closure(r) ==
    IF range_re(r) THEN RangeBranch(r)
    ELSE IF single_re(r) THEN SingleBranch(r)
    ELSE IllegalBranch(r)

\* Mutant of Push: a range already collected is not pushed again.
PushDedup(v, x) ==
    IF \E i \in 1..Len(v) : v[i] = x[1] THEN v ELSE v \o x

\* Vec::push of collect.
Push(v, x) == v \o x

VARIABLES
    range,   \* the argument of parse_pos
    split,   \* the tokens of range.split(",")
    idx,     \* how many tokens the iterator has yielded
    acc,     \* the ranges collect has pushed
    result,  \* what parse_pos returns, NoResult until it returns
    pc,      \* "parse_pos" (entered), "map" (in the iterator chain), "done"
    line,       \* extract_chars, extract_bytes: the line
    record,     \* extract_fields: the StringRecord
    positions,  \* the extractors' slice of ranges
    outChars,   \* what the last call of extract_chars returned
    outBytes,   \* what the last call of extract_bytes returned
    outFields,  \* what the last call of extract_fields returned
    config,     \* run: the Config (files, delimiter, extract)
    fileIdx,    \* run: how many files the for loop has finished
    handle,     \* run: the reader of the open file and what it will yield
    wtr,        \* run: the csv writer of the open file and its buffer
    stdin,      \* the lines standard input still holds
    stdout,     \* what has reached standard output
    stderr,     \* what has reached standard error
    opened,     \* the filenames open was called with
    ret,        \* what run returns, NoResult until it returns
    rpc,        \* "for" (loop head), "read" (in a file), "returned"
    matches,    \* get_args: what get_matches() returned
    cfgRes,     \* what get_args returns, NoConfig until it returns
    gpc         \* "get_args" (entered), "returned", "run", "exited"

parseVars == <<range, split, idx, acc, result, pc>>

extractVars == <<line, record, positions, outChars, outBytes, outFields>>

runVars ==
    <<config, fileIdx, handle, wtr, stdin, stdout, stderr, opened, ret, rpc>>

argsVars == <<matches, cfgRes, gpc>>

vars == <<parseVars, extractVars, runVars, argsVars>>

\* No call has returned yet.
NoOutput == [set |-> FALSE, res |-> <<>>, val |-> <<>>]

\* A call has returned v, its local res being r at that moment.
Returned(r, v) == [set |-> TRUE, res |-> r, val |-> v]

\* No reader.
Closed == [open |-> FALSE, rest |-> <<>>]

\* No csv writer.
NoWriter == [open |-> FALSE, rest |-> <<>>, width |-> -1]

\* run is not in use.
RunIdle ==
    /\ config = [files |-> <<>>, delimiter |-> "", extract |-> <<>>]
    /\ fileIdx = 0
    /\ handle = Closed
    /\ wtr = NoWriter
    /\ stdin = <<>>
    /\ stdout = <<>>
    /\ stderr = <<>>
    /\ opened = <<>>
    /\ ret = NoResult
    /\ rpc = "idle"

\* get_args has not returned.
NoConfig == [tag |-> "None", config |-> <<>>, msg |-> <<>>]

\* get_args is not in use.
ArgsIdle ==
    /\ matches = <<>>
    /\ cfgRes = NoConfig
    /\ gpc = "idle"

\* The extractors are not in use.
ExtractIdle ==
    /\ line = <<>>
    /\ record = <<>>
    /\ positions = <<>>
    /\ outChars = NoOutput
    /\ outBytes = NoOutput
    /\ outFields = NoOutput

Init ==
    /\ range \in Strings(MaxLen)
    /\ split = <<>>
    /\ idx = 0
    /\ acc = <<>>
    /\ result = NoResult
    /\ pc = "parse_pos"
    /\ ExtractIdle
    /\ RunIdle
    /\ ArgsIdle

\* Mutant of NextToken: the tokens are taken from the back.
NextTokenReversed == split[Len(split) - idx]

\* The token the iterator yields next.
NextToken == split[idx + 1]

\* Lines 144-149: split on ",", compile the regexes, test for no token.
Split ==
    /\ pc = "parse_pos"
    /\ split' = str_split(range, ",")
    /\ IF Len(split') < 1
       THEN /\ result' = Err(<<"empty string">>)
            /\ pc' = "done"
       ELSE /\ result' = result
            /\ pc' = "map"
    /\ UNCHANGED <<range, idx, acc>>
    /\ UNCHANGED <<extractVars, runVars, argsVars>>

\* One pull of collect through the closure: push on Ok, return on Err.
Step(item) ==
    /\ idx' = idx + 1
    /\ IF item.tag = "Err"
       THEN /\ result' = Err(item.msg)
            /\ acc' = acc
            /\ pc' = "done"
       ELSE /\ acc' = Push(acc, item.ranges)
            /\ result' = result
            /\ pc' = "map"
    /\ UNCHANGED <<range, split>>
    /\ UNCHANGED <<extractVars, runVars, argsVars>>

MapRange ==
    /\ pc = "map"
    /\ idx < Len(split)
    /\ range_re(NextToken)
    /\ Step(Closure(NextToken))

MapSingle ==
    /\ pc = "map"
    /\ idx < Len(split)
    /\ ~range_re(NextToken)
    /\ single_re(NextToken)
    /\ Step(Closure(NextToken))

MapIllegal ==
    /\ pc = "map"
    /\ idx < Len(split)
    /\ ~range_re(NextToken)
    /\ ~single_re(NextToken)
    /\ Step(Closure(NextToken))

\* The iterator is exhausted: collect returns Ok(vec).
Collect ==
    /\ pc = "map"
    /\ idx >= Len(split)
    /\ result' = Ok(acc)
    /\ pc' = "done"
    /\ UNCHANGED <<range, split, idx, acc>>
    /\ UNCHANGED <<extractVars, runVars, argsVars>>

Next == Split \/ MapRange \/ MapSingle \/ MapIllegal \/ Collect

Spec == Init /\ [][Next]_vars

\* --------------------------------------------------------------- extractors

\* Most units (characters of a line, fields of a record) of an input.
MaxUnits == 2

\* Most ranges of a selection list given to an extractor.
MaxRanges == 2

\* A character of one byte and a character of two bytes (LATIN SMALL LETTER A
\* WITH ACUTE, 0xC3 0xA1 in UTF-8).
AAcute == "U+00E1"

LineChars == {"b", "c", AAcute}

\* U+FFFD REPLACEMENT CHARACTER.
Replacement == "U+FFFD"

Lines == UNION {[1..k -> LineChars] : k \in 0..MaxUnits}

\* The fields of the records: two different texts.
FieldValues == {<<"b">>, <<AAcute, "b">>}

Records == UNION {[1..k -> FieldValues] : k \in 0..MaxUnits}

\* Ranges with start < end, reaching past the end of every line.
Ranges ==
    {Range(p[1], p[2]) :
        p \in {q \in (0..MaxUnits) \X (1..(MaxUnits + 1)) : q[1] < q[2]}}

PositionLists == UNION {[1..k -> Ranges] : k \in 0..MaxRanges}

\* The UTF-8 encoding of one character.
Utf8(c) ==
    CASE c = "b" -> <<98>>
      [] c = "c" -> <<99>>
      [] c = "\t" -> <<9>>
      [] OTHER -> <<195, 161>>

\* The character of a one-byte sequence.
AsciiOf(b) == CASE b = 98 -> "b" [] b = 99 -> "c" [] OTHER -> "\t"

\* Mutant of str_bytes: two bytes for every character.
RECURSIVE str_bytes_wide(_)
str_bytes_wide(s) ==
    IF s = <<>> THEN <<>> ELSE <<195, 161>> \o str_bytes_wide(Tail(s))

\* line.bytes()
RECURSIVE str_bytes(_)
str_bytes(s) ==
    IF s = <<>> THEN <<>> ELSE Utf8(Head(s)) \o str_bytes(Tail(s))

\* A UTF-8 continuation byte.
IsContinuation(b) == 128 <= b /\ b <= 191

\* Mutant of from_utf8_lossy: invalid bytes are dropped.
RECURSIVE from_utf8_dropping(_)
from_utf8_dropping(v) ==
    IF v = <<>> THEN <<>>
    ELSE IF Head(v) < 128 THEN <<AsciiOf(Head(v))>> \o from_utf8_dropping(Tail(v))
    ELSE IF Head(v) = 195 /\ Len(v) >= 2 /\ IsContinuation(v[2])
         THEN <<AAcute>> \o from_utf8_dropping(Tail(Tail(v)))
    ELSE from_utf8_dropping(Tail(v))

\* String::from_utf8_lossy: valid sequences decode to their characters, each
\* maximal invalid sequence (here one byte) to U+FFFD.
RECURSIVE from_utf8_lossy(_)
from_utf8_lossy(v) ==
    IF v = <<>> THEN <<>>
    ELSE IF Head(v) < 128 THEN <<AsciiOf(Head(v))>> \o from_utf8_lossy(Tail(v))
    ELSE IF Head(v) = 195 /\ Len(v) >= 2 /\ IsContinuation(v[2])
         THEN <<AAcute>> \o from_utf8_lossy(Tail(Tail(v)))
    ELSE <<Replacement>> \o from_utf8_lossy(Tail(v))

\* Mutant of contains: the end of the range is included.
contains_inclusive(r, i) == r.start <= i /\ i <= r.end

\* Range::contains(&i)
contains(r, i) == r.start <= i /\ i < r.end

\* String::new(), Vec::new(): the local res of an extractor.
NewRes == <<>>

\* for (i, u) in units.enumerate() { if r.contains(&i) { res.push(u) } },
\* from the unit of index i on.
RECURSIVE Enumerate(_, _, _, _)
Enumerate(units, r, i, res) ==
    IF i >= Len(units) THEN res
    ELSE Enumerate(units, r, i + 1,
                   IF contains(r, i) THEN Append(res, units[i + 1]) ELSE res)

\* pos.into_iter().for_each(|r| ..): the ranges in slice order, each over the
\* whole input.
RECURSIVE ForEachRange(_, _, _)
ForEachRange(units, pos, res) ==
    IF pos = <<>> THEN res
    ELSE ForEachRange(units, Tail(pos), Enumerate(units, Head(pos), 0, res))

\* Some range of pos contains i.
AnyContains(pos, i) == \E k \in 1..Len(pos) : contains(pos[k], i)

\* The ranges of pos that contain i, in slice order, each giving the unit u.
RECURSIVE PushPerRange(_, _, _, _)
PushPerRange(pos, i, u, res) ==
    IF pos = <<>> THEN res
    ELSE PushPerRange(Tail(pos), i, u,
                      IF contains(Head(pos), i) THEN Append(res, u) ELSE res)

\* Mutant loops: the units outside, the ranges inside.
RECURSIVE UnitsOutside(_, _, _, _)
UnitsOutside(units, pos, i, res) ==
    IF i >= Len(units) THEN res
    ELSE UnitsOutside(units, pos, i + 1,
                      PushPerRange(pos, i, units[i + 1], res))

\* Mutant loops: a unit is pushed once when any range contains its index.
RECURSIVE UnitsOnce(_, _, _, _)
UnitsOnce(units, pos, i, res) ==
    IF i >= Len(units) THEN res
    ELSE UnitsOnce(units, pos, i + 1,
                   IF AnyContains(pos, i) THEN Append(res, units[i + 1])
                   ELSE res)

\* Mutant of extract_chars: output in the order of the characters.
extract_chars_by_position(l, char_pos) == UnitsOutside(l, char_pos, 0, NewRes)

\* Mutant of extract_chars: overlapping ranges are merged.
extract_chars_merged(l, char_pos) == UnitsOnce(l, char_pos, 0, NewRes)

\* Mutant of extract_chars: res is a buffer kept from the previous call.
extract_chars_stateful(l, char_pos) ==
    ForEachRange(l, char_pos, outChars.res)

\* Mutant of extract_chars: only the first range of the list is applied.
extract_chars_first_range(l, char_pos) ==
    IF char_pos = <<>> THEN NewRes
    ELSE Enumerate(l, Head(char_pos), 0, NewRes)

extract_chars(l, char_pos) == ForEachRange(l, char_pos, NewRes)

\* The local res of extract_bytes before it is decoded.
selected_bytes(l, byte_pos) == ForEachRange(str_bytes(l), byte_pos, NewRes)

extract_bytes(l, byte_pos) == from_utf8_lossy(selected_bytes(l, byte_pos))

\* Mutant of extract_fields: output in the order of the fields.
extract_fields_by_position(rec, field_pos) ==
    UnitsOutside(rec, field_pos, 0, NewRes)

extract_fields(rec, field_pos) == ForEachRange(rec, field_pos, NewRes)

\* The parser is not in use.
ParseIdle ==
    /\ range = <<>>
    /\ split = <<>>
    /\ idx = 0
    /\ acc = <<>>
    /\ result = NoResult
    /\ pc = "idle"

\* One input (a line, or a record) and one selection list.
InitExtract ==
    /\ positions \in PositionLists
    /\ \/ line \in Lines /\ record = <<>>
       \/ line = <<>> /\ record \in Records
    /\ outChars = NoOutput
    /\ outBytes = NoOutput
    /\ outFields = NoOutput
    /\ ParseIdle
    /\ RunIdle
    /\ ArgsIdle

CallExtractChars ==
    /\ outChars' = Returned(extract_chars(line, positions),
                            extract_chars(line, positions))
    /\ UNCHANGED <<line, record, positions, outBytes, outFields>>
    /\ UNCHANGED <<parseVars, runVars, argsVars>>

CallExtractBytes ==
    /\ outBytes' = Returned(selected_bytes(line, positions),
                            extract_bytes(line, positions))
    /\ UNCHANGED <<line, record, positions, outChars, outFields>>
    /\ UNCHANGED <<parseVars, runVars, argsVars>>

CallExtractFields ==
    /\ outFields' = Returned(extract_fields(record, positions),
                             extract_fields(record, positions))
    /\ UNCHANGED <<line, record, positions, outChars, outBytes>>
    /\ UNCHANGED <<parseVars, runVars, argsVars>>

NextExtract == CallExtractChars \/ CallExtractBytes \/ CallExtractFields

SpecExtract == InitExtract /\ [][NextExtract]_vars

\* ----------------------------------------------------------------------- run

\* Most files of config.files.
MaxFiles == 2

\* The default delimiter.
Tab == "\t"

\* A byte that is not valid UTF-8.
BadByte == "0xFF"

\* The files that exist, each with its lines: A has an empty line and two
\* records of two fields, B a line that is not valid UTF-8, C records of
\* different lengths.
Disk ==
    [A |-> << <<"b", Tab, AAcute>>, <<>>, <<AAcute, Tab, "b">> >>,
     B |-> << <<"b">>, <<BadByte>>, <<"b">> >>,
     C |-> << <<"b", Tab, "b">>, <<"b">> >>]

\* What standard input holds when run starts.
StdinContent == << <<AAcute, "b">> >>

\* The paths given to run: the files that exist, one that does not, stdin.
Paths == DOMAIN Disk \cup {"X", "-"}

FileLists == UNION {[1..k -> Paths] : k \in 0..MaxFiles}

\* The selection lists given to run.
RunLists ==
    {<<Range(0, 1)>>, <<Range(1, 2), Range(0, 1)>>, <<Range(3, 4)>>}

Extracts == [mode : {"Fields", "Bytes", "Chars"}, rs : RunLists]

Configs == [files : FileLists, delimiter : {Tab, ","}, extract : Extracts]

OkItem(u) == [ok |-> TRUE, unit |-> u, err |-> <<>>]

ErrItem(e) == [ok |-> FALSE, unit |-> <<>>, err |-> e]

\* The local result of open: a reader over the content, or an error.
OpenOkResult(content) == [ok |-> TRUE, content |-> content, err |-> <<>>]

OpenErrResult(e) == [ok |-> FALSE, content |-> <<>>, err |-> e]

\* open(filename): stdin for "-", else File::open(filename)?.
open(filename) ==
    IF filename = "-" THEN OpenOkResult(stdin)
    ELSE IF filename \in DOMAIN Disk THEN OpenOkResult(Disk[filename])
    ELSE OpenErrResult(<<"No such file or directory (os error 2)">>)

IsValidUtf8(l) == \A i \in 1..Len(l) : l[i] # BadByte

\* handle.lines(): each line, or the error of a line that is not UTF-8.
LinesResults(raw) ==
    [i \in 1..Len(raw) |->
        IF IsValidUtf8(raw[i]) THEN OkItem(raw[i])
        ELSE ErrItem(<<"stream did not contain valid UTF-8">>)]

\* reader.records() with has_headers(false): empty lines are skipped, a line
\* is split on the delimiter, and a record whose length differs from the
\* first record's is an error (the reader is not flexible).  No line of Disk
\* holds a quote, so a record is one line.
RECURSIVE RecordsResults(_, _, _)
RecordsResults(raw, delim, width) ==
    IF raw = <<>> THEN <<>>
    ELSE IF Head(raw) = <<>> THEN RecordsResults(Tail(raw), delim, width)
    ELSE IF ~IsValidUtf8(Head(raw))
         THEN <<ErrItem(<<"CSV parse error: invalid UTF-8">>)>>
                  \o RecordsResults(Tail(raw), delim, width)
    ELSE LET rec == str_split(Head(raw), delim)
         IN IF width >= 0 /\ Len(rec) # width
            THEN <<ErrItem(<<"CSV error: found record with unequal lengths">>)>>
                     \o RecordsResults(Tail(raw), delim, width)
            ELSE <<OkItem(rec)>> \o RecordsResults(Tail(raw), delim, Len(rec))

\* What the reader of the matched arm will yield for a content.
Results(cfg, content) ==
    IF cfg.extract.mode = "Fields"
    THEN RecordsResults(content, cfg.delimiter, -1)
    ELSE LinesResults(content)

\* eprintln!("{}: {}", filename, err)
Diagnostic(filename, err) == <<filename, ": ">> \o err

LineItem(text) == [kind |-> "line", body |-> text]

RecordItem(fields) == [kind |-> "record", body |-> fields]

\* Mutant of println: an empty selection prints nothing.
println_nonempty(out, text) ==
    IF text = <<>> THEN out ELSE Append(out, LineItem(text))

\* println!("{}", text)
println(out, text) == Append(out, LineItem(text))

\* wtr.write_record(fields): buffered; an error when the number of fields
\* differs from that of the record written before (the writer is not flexible).
write_record(w, fields) ==
    IF w.width >= 0 /\ Len(fields) # w.width
    THEN [ok |-> FALSE, wtr |-> w,
          err |-> <<"CSV error: found record with unequal lengths">>]
    ELSE [ok |-> TRUE,
          wtr |-> [open |-> TRUE, rest |-> Append(w.rest, RecordItem(fields)),
                   width |-> Len(fields)],
          err |-> <<>>]

\* The writer is dropped: its buffer is flushed to standard output.
Flushed(out, w) == out \o w.rest

\* Mutant of CurrentFile: the files are taken from the back.
CurrentFileReversed == config.files[Len(config.files) - fileIdx]

\* for filename in &config.files
CurrentFile == config.files[fileIdx + 1]

\* Mutant of ErrArm: the error of open is propagated (open(filename)?).
ErrArmPropagate(filename, err) ==
    [stderr |-> stderr, ret |-> Err(err), rpc |-> "returned"]

\* Mutant of ErrArm: the diagnostic is printed and run returns the error.
ErrArmAbort(filename, err) ==
    [stderr |-> Append(stderr, Diagnostic(filename, err)),
     ret |-> Err(err), rpc |-> "returned"]

\* Err(err) => eprintln!(..): the diagnostic, and the loop goes on.
ErrArm(filename, err) ==
    [stderr |-> Append(stderr, Diagnostic(filename, err)),
     ret |-> ret, rpc |-> "for"]

InitRun ==
    /\ config \in Configs
    /\ fileIdx = 0
    /\ handle = Closed
    /\ wtr = NoWriter
    /\ stdin = StdinContent
    /\ stdout = <<>>
    /\ stderr = <<>>
    /\ opened = <<>>
    /\ ret = NoResult
    /\ rpc = "for"
    /\ ParseIdle
    /\ ExtractIdle
    /\ ArgsIdle

\* open fails: the Err arm.
OpenErr ==
    /\ rpc = "for"
    /\ fileIdx < Len(config.files)
    /\ ~open(CurrentFile).ok
    /\ LET arm == ErrArm(CurrentFile, open(CurrentFile).err)
       IN /\ stderr' = arm.stderr
          /\ ret' = arm.ret
          /\ rpc' = arm.rpc
          /\ fileIdx' = IF arm.rpc = "for" THEN fileIdx + 1 ELSE fileIdx
    /\ opened' = Append(opened, CurrentFile)
    /\ UNCHANGED <<config, handle, wtr, stdin, stdout>>
    /\ UNCHANGED <<parseVars, extractVars, argsVars>>

\* open succeeds: the Ok arm is entered; standard input is read here to its
\* end; the Fields arm builds its reader and its writer.
OpenOk ==
    /\ rpc = "for"
    /\ fileIdx < Len(config.files)
    /\ open(CurrentFile).ok
    /\ handle' = [open |-> TRUE,
                  rest |-> Results(config, open(CurrentFile).content)]
    /\ wtr' = IF config.extract.mode = "Fields"
              THEN [open |-> TRUE, rest |-> <<>>, width |-> -1]
              ELSE wtr
    /\ stdin' = IF CurrentFile = "-" THEN <<>> ELSE stdin
    /\ opened' = Append(opened, CurrentFile)
    /\ rpc' = "read"
    /\ UNCHANGED <<config, fileIdx, stdout, stderr, ret>>
    /\ UNCHANGED <<parseVars, extractVars, argsVars>>

\* Bytes(rs): one line read and printed.
ReadLineBytes ==
    /\ rpc = "read"
    /\ config.extract.mode = "Bytes"
    /\ handle.rest # <<>>
    /\ Head(handle.rest).ok
    /\ stdout' = println(stdout,
                         extract_bytes(Head(handle.rest).unit, config.extract.rs))
    /\ handle' = [handle EXCEPT !.rest = Tail(handle.rest)]
    /\ UNCHANGED <<config, fileIdx, wtr, stdin, stderr, opened, ret, rpc>>
    /\ UNCHANGED <<parseVars, extractVars, argsVars>>

\* Chars(rs): one line read and printed.
ReadLineChars ==
    /\ rpc = "read"
    /\ config.extract.mode = "Chars"
    /\ handle.rest # <<>>
    /\ Head(handle.rest).ok
    /\ stdout' = println(stdout,
                         extract_chars(Head(handle.rest).unit, config.extract.rs))
    /\ handle' = [handle EXCEPT !.rest = Tail(handle.rest)]
    /\ UNCHANGED <<config, fileIdx, wtr, stdin, stderr, opened, ret, rpc>>
    /\ UNCHANGED <<parseVars, extractVars, argsVars>>

\* Fields(rs): one record read and written; an error of write_record is
\* returned, and the writer flushes when it is dropped.
ReadRecord ==
    /\ rpc = "read"
    /\ config.extract.mode = "Fields"
    /\ handle.rest # <<>>
    /\ Head(handle.rest).ok
    /\ LET w == write_record(wtr, extract_fields(Head(handle.rest).unit,
                                                 config.extract.rs))
       IN IF w.ok
          THEN /\ wtr' = w.wtr
               /\ handle' = [handle EXCEPT !.rest = Tail(handle.rest)]
               /\ UNCHANGED <<stdout, ret, rpc>>
          ELSE /\ ret' = Err(w.err)
               /\ rpc' = "returned"
               /\ stdout' = Flushed(stdout, wtr)
               /\ wtr' = NoWriter
               /\ handle' = Closed
    /\ UNCHANGED <<config, fileIdx, stdin, stderr, opened>>
    /\ UNCHANGED <<parseVars, extractVars, argsVars>>

\* line? / record?: the error of the reader is returned from run.
ReadErr ==
    /\ rpc = "read"
    /\ handle.rest # <<>>
    /\ ~Head(handle.rest).ok
    /\ ret' = Err(Head(handle.rest).err)
    /\ rpc' = "returned"
    /\ stdout' = Flushed(stdout, wtr)
    /\ wtr' = NoWriter
    /\ handle' = Closed
    /\ UNCHANGED <<config, fileIdx, stdin, stderr, opened>>
    /\ UNCHANGED <<parseVars, extractVars, argsVars>>

\* Mutant of EndOfFile: the first range of the list is dropped after a file.
EndOfFileShrinking ==
    /\ rpc = "read"
    /\ handle.rest = <<>>
    /\ stdout' = Flushed(stdout, wtr)
    /\ wtr' = NoWriter
    /\ handle' = Closed
    /\ fileIdx' = fileIdx + 1
    /\ rpc' = "for"
    /\ config' = [config EXCEPT !.extract.rs = Tail(@)]
    /\ UNCHANGED <<stdin, stderr, opened, ret>>
    /\ UNCHANGED <<parseVars, extractVars, argsVars>>

\* The reader is exhausted: the arm ends, the next file follows.
EndOfFile ==
    /\ rpc = "read"
    /\ handle.rest = <<>>
    /\ stdout' = Flushed(stdout, wtr)
    /\ wtr' = NoWriter
    /\ handle' = Closed
    /\ fileIdx' = fileIdx + 1
    /\ rpc' = "for"
    /\ UNCHANGED <<config, stdin, stderr, opened, ret>>
    /\ UNCHANGED <<parseVars, extractVars, argsVars>>

\* The loop is over: Ok(()).
Return ==
    /\ rpc = "for"
    /\ fileIdx >= Len(config.files)
    /\ ret' = Ok(<<>>)
    /\ rpc' = "returned"
    /\ UNCHANGED <<config, fileIdx, handle, wtr, stdin, stdout, stderr, opened>>
    /\ UNCHANGED <<parseVars, extractVars, argsVars>>

NextRun ==
    \/ OpenErr \/ OpenOk \/ ReadLineBytes \/ ReadLineChars \/ ReadRecord
    \/ ReadErr \/ EndOfFile \/ Return

SpecRun == InitRun /\ [][NextRun]_vars

\* run is sequential code: while a step is possible, one is taken.
SpecRunFair == SpecRun /\ WF_vars(NextRun)

\* ------------------------------------------------------------------ get_args

\* parse_pos as one call: collect over the closure, returning the first Err.
RECURSIVE CollectFrom(_, _)
CollectFrom(tokens, v) ==
    IF tokens = <<>> THEN Ok(v)
    ELSE LET item == Closure(Head(tokens))
         IN IF item.tag = "Err" THEN Err(item.msg)
            ELSE CollectFrom(Tail(tokens), Push(v, item.ranges))

parse_pos(r) ==
    LET sp == str_split(r, ",")
    IN IF Len(sp) < 1 THEN Err(<<"empty string">>) ELSE CollectFrom(sp, <<>>)

\* The values given to --fields, --bytes or --chars.
ListValues ==
    {<<"1">>, <<"2">>, <<"1", "-", "2">>, <<"2", "-", "1", "2">>,
     <<"2", ",", "1">>, <<"0">>, <<"2", "-", "1">>, <<"a">>}

\* The values of --delim: the default, one byte, none, two bytes in one
\* character, two characters.
DelimValues == {<<Tab>>, <<",">>, <<>>, <<AAcute>>, <<",", ",">>}

\* What get_matches() returns: files holds "-" when no file is named, and the
\* three options conflict with each other, so at most one is present.
Matches ==
    [files : UNION {[1..k -> Paths] : k \in 1..MaxFiles},
     delim : DelimValues,
     present : {"none", "fields", "bytes", "chars"},
     value : ListValues]

\* delimiter.as_bytes()
RECURSIVE as_bytes(_)
as_bytes(d) ==
    IF d = <<>> THEN <<>>
    ELSE (IF Head(d) = Tab THEN <<9>>
          ELSE IF Head(d) = "," THEN <<44>>
          ELSE Utf8(Head(d))) \o as_bytes(Tail(d))

\* The delimiter of Config is one byte; the model of run splits a line on the
\* character that byte encodes.
ByteChar(b) == IF b = 9 THEN Tab ELSE IF b = 44 THEN "," ELSE "0xC3"

OkConfig(c) == [tag |-> "Ok", config |-> c, msg |-> <<>>]

ErrConfig(m) == [tag |-> "Err", config |-> <<>>, msg |-> m]

\* Mutant of DelimiterRejected: only an empty delimiter is rejected.
DelimiterRejectedEmpty(delimiter_bytes) == Len(delimiter_bytes) < 1

\* delimiter_bytes.len() != 1
DelimiterRejected(delimiter_bytes) == Len(delimiter_bytes) # 1

\* format!("--delim \"{}\" must be a single byte", delimiter)
DelimMsg(delimiter) ==
    <<"--delim \"">> \o delimiter \o <<"\" must be a single byte">>

\* Mutant of NoMode: characters 1 are selected when no mode is given.
NoModeDefault(files, delimiter) ==
    OkConfig([files |-> files, delimiter |-> delimiter,
              extract |-> [mode |-> "Chars", rs |-> <<Range(0, 1)>>]])

\* The else of the chain of modes.
NoMode(files, delimiter) ==
    ErrConfig(<<"Must have --fields, --bytes, or --chars">>)

\* Fields(parse_pos(..)?), Bytes(parse_pos(..)?), Chars(parse_pos(..)?) and
\* the Config built from it.
WithMode(files, delimiter, mode, value) ==
    LET p == parse_pos(value)
    IN IF p.tag = "Err" THEN ErrConfig(p.msg)
       ELSE OkConfig([files |-> files, delimiter |-> delimiter,
                      extract |-> [mode |-> mode, rs |-> p.ranges]])

\* get_args, from the return of get_matches() on.
get_args(m) ==
    LET files == m.files
        delimiter == m.delim
        delimiter_bytes == as_bytes(delimiter)
    IN IF DelimiterRejected(delimiter_bytes) THEN ErrConfig(DelimMsg(delimiter))
       ELSE IF m.present = "fields"
            THEN WithMode(files, ByteChar(delimiter_bytes[1]), "Fields", m.value)
       ELSE IF m.present = "bytes"
            THEN WithMode(files, ByteChar(delimiter_bytes[1]), "Bytes", m.value)
       ELSE IF m.present = "chars"
            THEN WithMode(files, ByteChar(delimiter_bytes[1]), "Chars", m.value)
       ELSE NoMode(files, ByteChar(delimiter_bytes[1]))

InitMain ==
    /\ matches \in Matches
    /\ cfgRes = NoConfig
    /\ gpc = "get_args"
    /\ config = [files |-> <<>>, delimiter |-> "", extract |-> <<>>]
    /\ fileIdx = 0
    /\ handle = Closed
    /\ wtr = NoWriter
    /\ stdin = StdinContent
    /\ stdout = <<>>
    /\ stderr = <<>>
    /\ opened = <<>>
    /\ ret = NoResult
    /\ rpc = "idle"
    /\ ParseIdle
    /\ ExtractIdle

\* get_args returns Ok(Config) or Err.
GetArgs ==
    /\ gpc = "get_args"
    /\ cfgRes' = get_args(matches)
    /\ gpc' = "returned"
    /\ UNCHANGED <<matches, parseVars, extractVars, runVars>>

\* main: run is called with the Config of get_args.
MainRun ==
    /\ gpc = "returned"
    /\ cfgRes.tag = "Ok"
    /\ config' = cfgRes.config
    /\ rpc' = "for"
    /\ gpc' = "run"
    /\ UNCHANGED <<fileIdx, handle, wtr, stdin, stdout, stderr, opened, ret>>
    /\ UNCHANGED <<matches, cfgRes, parseVars, extractVars>>

\* main: the error of get_args or of run is reported, and the process exits.
MainExit ==
    /\ \/ gpc = "returned" /\ cfgRes.tag = "Err"
          /\ stderr' = Append(stderr, cfgRes.msg)
       \/ gpc = "run" /\ rpc = "returned" /\ ret.tag = "Err"
          /\ stderr' = Append(stderr, ret.msg)
    /\ gpc' = "exited"
    /\ UNCHANGED <<config, fileIdx, handle, wtr, stdin, stdout, opened, ret, rpc>>
    /\ UNCHANGED <<matches, cfgRes, parseVars, extractVars>>

NextMain == GetArgs \/ MainRun \/ MainExit \/ NextRun

SpecMain == InitMain /\ [][NextMain]_vars

\* ------------------------------------------------- vocabulary of the claims

Done == pc = "done"

Succeeded == Done /\ result.tag = "Ok"

Failed == Done /\ result.tag = "Err"

\* Token i has gone through the closure.
Reached(i) == pc # "parse_pos" /\ i <= idx

\* parse_pos returned the error of token i.
FailedAt(i) == Failed /\ idx = i

\* Token i makes parse_pos fail, with message m when it is the token reached.
TokenFailsWith(i, m) ==
    /\ Done => result.tag = "Err"
    /\ Reached(i) => FailedAt(i) /\ result.msg = m

\* Token i yields the range rg: pushed when reached, and i-th of an Ok result.
TokenYields(i, rg) ==
    /\ ~FailedAt(i)
    /\ Reached(i) => Len(acc) >= i /\ acc[i] = rg
    /\ Succeeded => Len(result.ranges) >= i /\ result.ranges[i] = rg

\* A decimal numeral: one or more of the digits 0-9.
IsNumeral(s) ==
    Len(s) >= 1 /\ \A i \in 1..Len(s) :
        s[i] \in {"0", "1", "2", "3", "4", "5", "6", "7", "8", "9"}

NumeralDigit(c) ==
    CASE c = "0" -> 0 [] c = "1" -> 1 [] c = "2" -> 2 [] c = "3" -> 3
      [] c = "4" -> 4 [] c = "5" -> 5 [] c = "6" -> 6 [] c = "7" -> 7
      [] c = "8" -> 8 [] OTHER -> 9

\* The number a numeral denotes, leading zeros ignored, of any size.
RECURSIVE Value(_)
Value(s) ==
    IF s = <<>> THEN 0
    ELSE 10 * Value(SubSeq(s, 1, Len(s) - 1)) + NumeralDigit(s[Len(s)])

\* A numeral without its leading zeros (the numeral of zero is "0").
RECURSIVE Canonical(_)
Canonical(s) ==
    IF Len(s) > 1 /\ s[1] = "0" THEN Canonical(Tail(s)) ELSE s

Hyphens(t) == {k \in 1..Len(t) : t[k] = "-"}

\* numeral "-" numeral
IsPair(t) ==
    /\ Cardinality(Hyphens(t)) = 1
    /\ \A k \in Hyphens(t) :
           IsNumeral(SubSeq(t, 1, k - 1)) /\ IsNumeral(SubSeq(t, k + 1, Len(t)))

HyphenOf(t) == CHOOSE k \in 1..Len(t) : t[k] = "-"

PairLeft(t) == SubSeq(t, 1, HyphenOf(t) - 1)

PairRight(t) == SubSeq(t, HyphenOf(t) + 1, Len(t))

Commas(s) == {p \in 1..Len(s) : s[p] = ","}

\* Position of the n-th comma; 0 before the first token, Len + 1 after the last.
CommaAt(s, n) ==
    IF n = 0 THEN 0
    ELSE IF n > Cardinality(Commas(s)) THEN Len(s) + 1
    ELSE CHOOSE p \in Commas(s) :
             Cardinality({q \in Commas(s) : q <= p}) = n

\* The i-th comma-separated token of s.
Token(s, i) == SubSeq(s, CommaAt(s, i - 1) + 1, CommaAt(s, i) - 1)

TokenCount(s) == Cardinality(Commas(s)) + 1

\* The 0-based half-open range of a valid token; an impossible range otherwise.
ExpectedRange(t) ==
    IF IsNumeral(t) THEN [start |-> Value(t) - 1, end |-> Value(t)]
    ELSE IF IsPair(t)
         THEN [start |-> Value(PairLeft(t)) - 1, end |-> Value(PairRight(t))]
    ELSE [start |-> -1, end |-> -1]

\* ------------------------------------------------------------------- claims

\* C1: when parse_pos succeeds, the result has exactly one range per
\* comma-separated token of the input and the i-th range is the range of the
\* i-th token: the list is never sorted, merged or deduplicated.
C1_OneRangePerTokenInOrder ==
    Succeeded =>
        /\ Len(result.ranges) = TokenCount(range)
        /\ \A i \in 1..TokenCount(range) :
               result.ranges[i] = ExpectedRange(Token(range, i))

\* C1 witness: parse_pos has returned a list whose first range starts after
\* its second (the tokens were not in ascending order).
C1_Witness ==
    /\ Succeeded
    /\ Len(result.ranges) >= 2
    /\ result.ranges[1].start > result.ranges[2].start

\* C2 as stated: every numeral token of value n > 0 yields the range [n-1, n),
\* leading zeros or not.
C2_Original ==
    \A i \in 1..Len(split) :
        IsNumeral(split[i]) /\ Value(split[i]) > 0
            => TokenYields(i, [start |-> Value(split[i]) - 1,
                               end |-> Value(split[i])])

\* C2 amended: every numeral token of value n with 0 < n <= usize::MAX yields
\* the range [n-1, n), leading zeros or not.
C2_SingleInRange ==
    \A i \in 1..Len(split) :
        /\ IsNumeral(split[i])
        /\ Value(split[i]) > 0
        /\ Value(split[i]) <= UsizeMax
        => TokenYields(i, [start |-> Value(split[i]) - 1,
                           end |-> Value(split[i])])

\* C2 witness: a numeral with a leading zero has been parsed to a range and
\* parse_pos has returned it.
C2_Witness ==
    /\ Succeeded
    /\ \E i \in 1..Len(split) :
           IsNumeral(split[i]) /\ Len(split[i]) >= 2 /\ split[i][1] = "0"

\* C3 as stated: every pair token a-b with 0 < a < b yields [a-1, b).
C3_Original ==
    \A i \in 1..Len(split) :
        /\ IsPair(split[i])
        /\ 0 < Value(PairLeft(split[i]))
        /\ Value(PairLeft(split[i])) < Value(PairRight(split[i]))
        => TokenYields(i, [start |-> Value(PairLeft(split[i])) - 1,
                           end |-> Value(PairRight(split[i]))])

\* C3 amended: every pair token a-b with 0 < a < b <= usize::MAX yields the
\* range [a-1, b), which covers b-a+1 indices, leading zeros or not.
C3_PairInRange ==
    \A i \in 1..Len(split) :
        /\ IsPair(split[i])
        /\ 0 < Value(PairLeft(split[i]))
        /\ Value(PairLeft(split[i])) < Value(PairRight(split[i]))
        /\ Value(PairRight(split[i])) <= UsizeMax
        => /\ TokenYields(i, [start |-> Value(PairLeft(split[i])) - 1,
                              end |-> Value(PairRight(split[i]))])
           /\ Reached(i) =>
                  acc[i].end - acc[i].start
                      = Value(PairRight(split[i])) - Value(PairLeft(split[i])) + 1

\* C3 witness: a pair with a leading zero has been parsed and returned.
C3_Witness ==
    /\ Succeeded
    /\ \E i \in 1..Len(split) :
           IsPair(split[i]) /\ split[i][1] = "0" /\ Len(result.ranges) >= i

\* The ordering message with the numbers a and b of a pair token.
OrderMessageOf(t) ==
    <<"First number in range (">> \o Canonical(PairLeft(t))
        \o <<") must be lower than second number (">>
        \o Canonical(PairRight(t)) \o <<")">>

\* C4 as stated: every pair token with both values positive and a >= b makes
\* parse_pos fail with the ordering message naming a and b.
C4_Original ==
    \A i \in 1..Len(split) :
        /\ IsPair(split[i])
        /\ Value(PairRight(split[i])) > 0
        /\ Value(PairLeft(split[i])) >= Value(PairRight(split[i]))
        => TokenFailsWith(i, OrderMessageOf(split[i]))

\* C4 amended: every pair token with 0 < b <= a <= usize::MAX makes parse_pos
\* fail with the ordering message naming a and b.
C4_OrderMessage ==
    \A i \in 1..Len(split) :
        /\ IsPair(split[i])
        /\ Value(PairRight(split[i])) > 0
        /\ Value(PairLeft(split[i])) >= Value(PairRight(split[i]))
        /\ Value(PairLeft(split[i])) <= UsizeMax
        => TokenFailsWith(i, OrderMessageOf(split[i]))

\* C4 witness: parse_pos has failed on a pair of equal numbers, one of them
\* written with a leading zero.
C4_Witness ==
    \E i \in 1..Len(split) :
        /\ FailedAt(i)
        /\ IsPair(split[i])
        /\ Value(PairLeft(split[i])) = Value(PairRight(split[i]))
        /\ Value(PairRight(split[i])) > 0
        /\ Len(split[i]) >= 4

\* C5: a numeral token of value zero, and a pair token whose first value is
\* zero, make parse_pos fail with the message illegal list value: "0".
C5_ZeroIsIllegal ==
    \A i \in 1..Len(split) :
        \/ IsNumeral(split[i]) /\ Value(split[i]) = 0
        \/ IsPair(split[i]) /\ Value(PairLeft(split[i])) = 0
        => TokenFailsWith(i, <<"illegal list value: \"", "0", "\"">>)

\* C5 witness: parse_pos has failed on a pair whose first value is zero,
\* written with more than one digit.
C5_Witness ==
    \E i \in 1..Len(split) :
        /\ FailedAt(i)
        /\ IsPair(split[i])
        /\ Value(PairLeft(split[i])) = 0
        /\ Len(PairLeft(split[i])) >= 2

\* The decimal digits of the two grammars, as the regex class \d reads them.
IsGrammarDigits(s) ==
    Len(s) >= 1 /\ \A i \in 1..Len(s) : s[i] \in AsciiDigits \cup {ArabicThree}

\* The single grammar: digits only.
MatchesSingle(t) == IsGrammarDigits(t)

\* The pair grammar: digits, one hyphen, digits.
MatchesPair(t) ==
    /\ Cardinality(Hyphens(t)) = 1
    /\ \A k \in Hyphens(t) :
           /\ IsGrammarDigits(SubSeq(t, 1, k - 1))
           /\ IsGrammarDigits(SubSeq(t, k + 1, Len(t)))

C7_EmptyString ==
    Done /\ range = <<>> => result = Err(<<"empty string">>)

\* A token that, parsed on its own, is an error.
Invalid(t) == Closure(t).tag = "Err"

InvalidTokens == {i \in 1..TokenCount(range) : Invalid(Token(range, i))}

Leftmost(S) == CHOOSE i \in S : \A j \in S : i <= j

\* C8: when the input holds an invalid token, parse_pos returns an error and
\* no list of ranges, and the error is that of the leftmost invalid token.
C8_FailFast ==
    Done /\ InvalidTokens # {} =>
        /\ result.tag = "Err"
        /\ result.ranges = <<>>
        /\ result.msg = Closure(Token(range, Leftmost(InvalidTokens))).msg

\* C8 witness: parse_pos has failed on an input with a valid token, then an
\* invalid one, then another invalid one with a different error.
C8_Witness ==
    /\ Failed
    /\ TokenCount(range) = 3
    /\ InvalidTokens = {2, 3}
    /\ Closure(Token(range, 2)).msg # Closure(Token(range, 3)).msg

\* An empty token: the empty string, a leading or trailing comma, two
\* adjacent commas.
HasEmptyToken(s) ==
    \/ s = <<>>
    \/ s[1] = ","
    \/ s[Len(s)] = ","
    \/ \E p \in 1..(Len(s) - 1) : s[p] = "," /\ s[p + 1] = ","

\* A token that is a lone or dangling hyphen, or has more than one hyphen.
HasWonkyHyphen(s) ==
    \E i \in 1..TokenCount(s) :
        LET t == Token(s, i)
        IN /\ t # <<>>
           /\ \/ t[1] = "-"
              \/ t[Len(t)] = "-"
              \/ Cardinality(Hyphens(t)) >= 2

\* C9: an input with an empty token, or with a token that is a lone or
\* dangling hyphen or has more than one hyphen, makes parse_pos fail.
C9_WonkyInputsFail ==
    Done /\ (HasEmptyToken(range) \/ HasWonkyHyphen(range))
        => result.tag = "Err"

\* C9 witness: parse_pos has gone through a valid token and failed on the
\* empty token after a trailing comma.
C9_Witness ==
    /\ Failed
    /\ Len(range) >= 2
    /\ range[Len(range)] = ","
    /\ idx = Len(split)
    /\ idx >= 2

\* C10: every range of a list parse_pos returns has 0 <= start < end.
C10_RangesNonEmpty ==
    Succeeded =>
        \A i \in 1..Len(result.ranges) :
            /\ 0 <= result.ranges[i].start
            /\ result.ranges[i].start < result.ranges[i].end

\* C10 witness: parse_pos has returned a list with a range of a pair token
\* and a range of a single token.
C10_Witness ==
    /\ Succeeded
    /\ Len(result.ranges) >= 2
    /\ \E i \in 1..Len(split) : IsPair(split[i])
    /\ \E i \in 1..Len(split) : IsNumeral(split[i])

\* ------------------------------------- vocabulary of the extractors' claims

RECURSIVE Flatten(_)
Flatten(ss) == IF ss = <<>> THEN <<>> ELSE Head(ss) \o Flatten(Tail(ss))

Smaller(a, b) == IF a <= b THEN a ELSE b

\* The units of the input whose 0-based index lies in r, in input order.
Slice(units, r) ==
    IF r.start >= Len(units) THEN <<>>
    ELSE SubSeq(units, r.start + 1, Smaller(r.end, Len(units)))

\* The slices of the ranges of pos, one after the other in list order.
Selection(units, pos) ==
    Flatten([k \in 1..Len(pos) |-> Slice(units, pos[k])])

\* How many indices of an input of n units lie in r.
Overlap(r, n) == Cardinality({i \in 0..(n - 1) : r.start <= i /\ i < r.end})

RECURSIVE SumOverlaps(_, _)
SumOverlaps(pos, n) ==
    IF pos = <<>> THEN 0 ELSE Overlap(Head(pos), n) + SumOverlaps(Tail(pos), n)

\* How many bytes a line has.
RECURSIVE ByteLength(_)
ByteLength(l) ==
    IF l = <<>> THEN 0
    ELSE (IF Head(l) = AAcute THEN 2 ELSE 1) + ByteLength(Tail(l))

\* How many ranges of pos cover the 0-based index i.
Coverage(pos, i) ==
    Cardinality({k \in 1..Len(pos) : pos[k].start <= i /\ i < pos[k].end})

Occurrences(s, u) == Cardinality({j \in 1..Len(s) : s[j] = u})

\* The coverage of the units of 1-based indices I, added up.
RECURSIVE SumCoverage(_, _)
SumCoverage(pos, I) ==
    IF I = {} THEN 0
    ELSE LET i == CHOOSE x \in I : TRUE
         IN Coverage(pos, i - 1) + SumCoverage(pos, I \ {i})

\* C11: extract_chars returns, for every line and range list, the characters
\* (not bytes) whose 0-based position lies in each range, range after range
\* in list order, each group in input order.
C11_CharsInListOrder ==
    outChars.set => outChars.val = Selection(line, positions)

\* C11 witness: extract_chars has returned the two characters of a line with
\* a two-byte character in reverse order, for ranges listed in reverse order.
C11_Witness ==
    /\ outChars.set
    /\ line = <<AAcute, "b">>
    /\ positions = <<[start |-> 1, end |-> 2], [start |-> 0, end |-> 1]>>
    /\ outChars.val = <<"b", AAcute>>

\* C12: each extractor selects exactly as many units as the ranges have
\* indices inside the input (characters, bytes before decoding, fields);
\* ranges beyond the input, and any range on an empty input, select nothing.
C12_OutOfRangeDropped ==
    /\ outChars.set =>
           Len(outChars.res) = SumOverlaps(positions, Len(line))
    /\ outBytes.set =>
           Len(outBytes.res) = SumOverlaps(positions, ByteLength(line))
    /\ outFields.set =>
           Len(outFields.res) = SumOverlaps(positions, Len(record))
    /\ outChars.set /\ line = <<>> => outChars.val = <<>>
    /\ outBytes.set /\ line = <<>> => outBytes.val = <<>>
    /\ outFields.set /\ record = <<>> => outFields.val = <<>>

\* C12 witness: the three extractors have returned for a one-character line
\* and a list with a range partly beyond it and a range wholly beyond it.
C12_Witness ==
    /\ outChars.set /\ outBytes.set /\ outFields.set
    /\ line = <<"b">>
    /\ positions = <<[start |-> 0, end |-> 2], [start |-> 1, end |-> 3]>>
    /\ outChars.val = <<"b">>

\* C13: a character whose index is covered by k ranges appears k times in
\* the output of extract_chars, and nothing else is in the output.
C13_OverlapsRepeat ==
    outChars.set =>
        /\ \A u \in LineChars :
               Occurrences(outChars.val, u)
                   = SumCoverage(positions, {i \in 1..Len(line) : line[i] = u})
        /\ Len(outChars.val) = SumCoverage(positions, 1..Len(line))

\* C13 witness: extract_chars has returned the first character twice for two
\* overlapping ranges.
C13_Witness ==
    /\ outChars.set
    /\ line = <<AAcute, "b">>
    /\ positions = <<[start |-> 0, end |-> 2], [start |-> 0, end |-> 1]>>
    /\ outChars.val = <<AAcute, "b", AAcute>>

\* Byte j of v starts a valid two-byte sequence.
StartsPair(v, j) == v[j] = 195 /\ j < Len(v) /\ v[j + 1] = 161

\* Byte j of v ends a valid two-byte sequence.
EndsPair(v, j) == j > 1 /\ v[j] = 161 /\ v[j - 1] = 195

\* What byte j of v becomes in a lossy decoding.
DecodedAt(v, j) ==
    IF v[j] < 128 THEN <<AsciiOf(v[j])>>
    ELSE IF StartsPair(v, j) THEN <<AAcute>>
    ELSE IF EndsPair(v, j) THEN <<>>
    ELSE <<Replacement>>

LossyText(v) == Flatten([j \in 1..Len(v) |-> DecodedAt(v, j)])

\* C14: extract_bytes selects bytes as extract_chars selects characters and
\* decodes them lossily: a valid selection gives its characters, each invalid
\* byte gives U+FFFD.
C14_BytesLossy ==
    outBytes.set =>
        /\ outBytes.res = Selection(str_bytes(line), positions)
        /\ outBytes.val = LossyText(outBytes.res)
        /\ \A t \in Lines : str_bytes(t) = outBytes.res => outBytes.val = t
        /\ line = <<AAcute, "b">> /\ positions = <<[start |-> 0, end |-> 1]>>
               => outBytes.val = <<Replacement>>
        /\ line = <<AAcute, "b">> /\ positions = <<[start |-> 0, end |-> 2]>>
               => outBytes.val = <<AAcute>>

\* C14 witness: extract_bytes has returned U+FFFD for the first byte of a
\* two-byte character.
C14_Witness ==
    /\ outBytes.set
    /\ line = <<AAcute, "b">>
    /\ positions = <<[start |-> 0, end |-> 1]>>
    /\ outBytes.val = <<Replacement>>

\* C15: extract_fields returns, for every record and range list, the fields
\* whose 0-based column index lies in each range, range after range in list
\* order, each field unchanged; fields that do not exist are left out.
C15_FieldsInListOrder ==
    outFields.set => outFields.val = Selection(record, positions)

\* C15 witness: extract_fields has returned the two fields of a record in
\* reverse order, for a list that also asks for a field that does not exist.
C15_Witness ==
    /\ outFields.set
    /\ record = <<<<"b">>, <<AAcute, "b">>>>
    /\ positions = <<[start |-> 1, end |-> 3], [start |-> 0, end |-> 1]>>
    /\ outFields.val = <<<<AAcute, "b">>, <<"b">>>>

Returned_run == rpc = "returned"

Unopenable(f) == f \notin DOMAIN Disk /\ f # "-"

Openable(f) == ~Unopenable(f)

\* What the i-th file of a list holds when it is opened: standard input holds
\* its content for the first "-" and nothing afterwards.
ContentIn(files, i) ==
    IF files[i] = "-"
    THEN IF \E j \in 1..(i - 1) : files[j] = "-" THEN <<>> ELSE StdinContent
    ELSE IF Openable(files[i]) THEN Disk[files[i]] ELSE <<>>

\* The input units of a content: its lines, or its records (the non-empty
\* lines), each readable or not.
UnitsIn(cfg, content) == Results(cfg, content)

FileFails(cfg, content) ==
    \E j \in 1..Len(UnitsIn(cfg, content)) : ~UnitsIn(cfg, content)[j].ok

\* The units before the first one that cannot be read.
ReadableCount(cfg, content) ==
    LET us == UnitsIn(cfg, content)
    IN IF \A j \in 1..Len(us) : us[j].ok THEN Len(us)
       ELSE (CHOOSE j \in 1..Len(us) :
                 ~us[j].ok /\ \A k \in 1..(j - 1) : us[k].ok) - 1

\* The result for one line or record.
ItemOf(cfg, unit) ==
    IF cfg.extract.mode = "Fields"
    THEN RecordItem(extract_fields(unit, cfg.extract.rs))
    ELSE IF cfg.extract.mode = "Bytes"
    THEN LineItem(extract_bytes(unit, cfg.extract.rs))
    ELSE LineItem(extract_chars(unit, cfg.extract.rs))

\* The per-line results of a content, in input order.
PerLine(cfg, content) ==
    [j \in 1..ReadableCount(cfg, content) |->
        ItemOf(cfg, UnitsIn(cfg, content)[j].unit)]

\* The output of the i-th file of a list.
PerFile(cfg, files, i) ==
    IF Unopenable(files[i]) THEN <<>> ELSE PerLine(cfg, ContentIn(files, i))

\* The first file of a list whose reading fails, or one past the list.
StopAt(cfg, files) ==
    IF \E i \in 1..Len(files) :
           Openable(files[i]) /\ FileFails(cfg, ContentIn(files, i))
    THEN CHOOSE i \in 1..Len(files) :
           /\ Openable(files[i]) /\ FileFails(cfg, ContentIn(files, i))
           /\ \A j \in 1..(i - 1) :
                  ~(Openable(files[j]) /\ FileFails(cfg, ContentIn(files, j)))
    ELSE Len(files)

\* The standard output of a whole run over a list of files.
RunOutput(cfg, files) ==
    Flatten([i \in 1..StopAt(cfg, files) |-> PerFile(cfg, files, i)])

OpenableOnly(files) == SelectSeq(files, Openable)

\* The diagnostics of the unopenable files of a list, in order.
DiagnosticsOf(files) ==
    LET bad == SelectSeq(files, Unopenable)
    IN [i \in 1..Len(bad) |->
           <<bad[i], ": ", "No such file or directory (os error 2)">>]

\* C17: a file that fails to open produces one diagnostic naming the file and
\* the error, and nothing else: the error stream holds exactly the diagnostics
\* of the unopenable files tried so far, run never returns an error at such a
\* file and it goes on to every later file, and the standard output of the
\* finished run is that of the run over the list without the unopenable files.
C17_OpenFailureIsolated ==
    /\ stderr = DiagnosticsOf(opened)
    /\ (Returned_run /\ ret.tag = "Err"
            => opened # <<>> /\ Openable(opened[Len(opened)]))
    /\ (Returned_run /\ ret.tag = "Ok" => opened = config.files)
    /\ (Returned_run
            => stdout = RunOutput(config, OpenableOnly(config.files)))

\* C17 witness: run has returned Ok over a list whose first file could not be
\* opened and whose second file gave output.
C17_Witness ==
    /\ Returned_run
    /\ ret.tag = "Ok"
    /\ Len(config.files) = 2
    /\ Unopenable(config.files[1])
    /\ stderr = <<Diagnostic(config.files[1],
                             <<"No such file or directory (os error 2)">>)>>
    /\ stdout # <<>>

\* C18, as claimed: every per-file runtime error is recoverable, so a finished
\* run has returned Ok, has tried every file of the list, and has reported on
\* the error stream each file whose reading failed.
C18_ReadErrorsRecoverable ==
    Returned_run
        => /\ ret.tag = "Ok"
           /\ opened = config.files
           /\ \A i \in 1..Len(config.files) :
                  Openable(config.files[i])
                      /\ FileFails(config, ContentIn(config.files, i))
                  => \E k \in 1..Len(stderr) : stderr[k][1] = config.files[i]

\* The units of the file being read that have been taken from its reader.
Taken ==
    IF rpc = "read"
    THEN Len(UnitsIn(config, ContentIn(config.files, fileIdx + 1)))
             - Len(handle.rest)
    ELSE 0

\* The output of the files that are finished.
RECURSIVE OutputUpTo(_)
OutputUpTo(n) ==
    IF n = 0 THEN <<>>
    ELSE OutputUpTo(n - 1) \o PerFile(config, config.files, n)

\* What has been printed or written, the buffer of the csv writer included.
Emitted == stdout \o wtr.rest

\* C19: files are processed in the order of the list and, within a file, lines
\* or records in input order: the files tried so far are the front of the
\* list, duplicates included, and the output so far is the concatenation, in
\* that order, of the per-line results of the finished files and of the lines
\* or records taken so far from the file being read.
C19_ListOrder ==
    /\ Len(opened) <= Len(config.files)
    /\ opened = SubSeq(config.files, 1, Len(opened))
    /\ (rpc = "for" => Len(opened) = fileIdx /\ Emitted = OutputUpTo(fileIdx))
    /\ (rpc = "read"
            => /\ Len(opened) = fileIdx + 1
               /\ Emitted = OutputUpTo(fileIdx)
                      \o SubSeq(PerFile(config, config.files, fileIdx + 1),
                                1, Taken))
    /\ (Returned_run /\ ret.tag = "Ok"
            => opened = config.files /\ stdout = OutputUpTo(Len(config.files)))

\* C19 witness: run has returned Ok over a list that names one file twice, and
\* the output holds the non-empty output of that file twice.
C19_Witness ==
    /\ Returned_run
    /\ ret.tag = "Ok"
    /\ opened = <<"A", "A">>
    /\ PerFile(config, config.files, 1) # <<>>
    /\ stdout = PerFile(config, config.files, 1)
                    \o PerFile(config, config.files, 2)

\* The input lines of a content, or its input records: the csv reader does
\* not take an empty line for a record.
InputCount(cfg, content) ==
    IF cfg.extract.mode = "Fields"
    THEN Len(SelectSeq(content, LAMBDA l : l # <<>>))
    ELSE Len(content)

RECURSIVE InputUpTo(_)
InputUpTo(n) ==
    IF n = 0 THEN 0
    ELSE InputUpTo(n - 1)
             + InputCount(config, ContentIn(config.files, n))

\* C20: for every file opened and read without error there is one output line
\* per input line in Bytes and Chars mode, an empty selection included, and
\* one written record per input record in Fields mode: whenever the loop is at
\* a file boundary or the run has returned Ok, the output holds as many items
\* as the finished files hold lines or records, each of the kind of the mode,
\* and while a file is read it holds one more item for each unit taken.
C20_OnePerUnit ==
    /\ \A k \in 1..Len(Emitted) :
           Emitted[k].kind =
               IF config.extract.mode = "Fields" THEN "record" ELSE "line"
    /\ (rpc = "for" \/ (Returned_run /\ ret.tag = "Ok")
            => Len(Emitted) = InputUpTo(fileIdx))
    /\ (rpc = "read" => Len(Emitted) = InputUpTo(fileIdx) + Taken)

\* C20 witness: a file of three lines has been read to its end with a
\* selection that is empty on every line, and the output is three empty lines.
C20_Witness ==
    /\ Returned_run
    /\ ret.tag = "Ok"
    /\ config.files = <<"A">>
    /\ config.extract.mode = "Chars"
    /\ stdout = <<LineItem(<<>>), LineItem(<<>>), LineItem(<<>>)>>

\* --------------------------------------------- vocabulary of get_args claims

GetArgsReturned == gpc # "get_args"

\* The delimiter is one character that is encoded in one byte.
OneByte(d) == Len(d) = 1 /\ d[1] \in {Tab, ","}

ModeGiven(m) == m.present \in {"fields", "bytes", "chars"}

\* A token of the user's notation that denotes a selection.
ValidToken(t) ==
    \/ IsNumeral(t) /\ 0 < Value(t) /\ Value(t) <= UsizeMax
    \/ /\ IsPair(t)
       /\ 0 < Value(PairLeft(t))
       /\ Value(PairLeft(t)) < Value(PairRight(t))
       /\ Value(PairRight(t)) <= UsizeMax

ValidList(v) == \A i \in 1..TokenCount(v) : ValidToken(Token(v, i))

\* The ranges a valid list denotes, token by token.
ExpectedList(v) == [i \in 1..TokenCount(v) |-> ExpectedRange(Token(v, i))]

ValidArgs(m) == OneByte(m.delim) /\ ModeGiven(m) /\ ValidList(m.value)

ModeOf(m) ==
    IF m.present = "fields" THEN "Fields"
    ELSE IF m.present = "bytes" THEN "Bytes"
    ELSE "Chars"

\* Nothing of run has happened.
NothingRun ==
    /\ rpc = "idle"
    /\ opened = <<>>
    /\ handle = Closed
    /\ wtr = NoWriter
    /\ stdout = <<>>

\* C21: a delimiter that is not one byte, a missing mode and an invalid
\* selection list each make get_args fail, and as long as get_args has not
\* returned a Config no Config exists, no file has been opened and no output
\* line or record has been written.
C21_ConfigErrorsFatal ==
    /\ (GetArgsReturned /\ ~ValidArgs(matches)
            => cfgRes.tag = "Err" /\ cfgRes.config = <<>>)
    /\ (cfgRes.tag # "Ok" => NothingRun /\ config.files = <<>>)

\* C21 witness: the process has exited after get_args failed on an invalid
\* selection list, the first file named being one that exists.
C21_Witness ==
    /\ gpc = "exited"
    /\ cfgRes.tag = "Err"
    /\ OneByte(matches.delim)
    /\ ModeGiven(matches)
    /\ ~ValidList(matches.value)
    /\ matches.files[1] = "A"
    /\ NothingRun

\* The configuration error of a missing mode.
MustHaveMode == ErrConfig(<<"Must have --fields, --bytes, or --chars">>)

\* A Config carries the mode that was given and the list its value denotes.
OneModeWithList ==
    cfgRes.tag = "Ok"
        => /\ ModeGiven(matches)
           /\ cfgRes.config.extract.mode = ModeOf(matches)
           /\ ValidList(matches.value)
           /\ cfgRes.config.extract.rs = ExpectedList(matches.value)

\* C22, as claimed: every Config carries exactly one mode with its parsed
\* list, and whenever no mode is given get_args fails with the error of the
\* missing mode.
C22_Original ==
    /\ OneModeWithList
    /\ (GetArgsReturned /\ ~ModeGiven(matches) => cfgRes = MustHaveMode)

\* C22, amended: every Config carries exactly one mode with its parsed list,
\* and whenever no mode is given and the delimiter is one byte get_args fails
\* with the error of the missing mode; with another delimiter it fails too,
\* with the error of the delimiter, which is checked first.
C22_OneMode ==
    /\ OneModeWithList
    /\ (GetArgsReturned /\ ~ModeGiven(matches)
            => /\ cfgRes.tag = "Err"
               /\ OneByte(matches.delim) => cfgRes = MustHaveMode
               /\ ~OneByte(matches.delim)
                      => cfgRes = ErrConfig(DelimMsg(matches.delim)))

\* C22 witness: get_args has returned the error of the missing mode.
C22_Witness ==
    /\ GetArgsReturned
    /\ ~ModeGiven(matches)
    /\ cfgRes = MustHaveMode

\* --------------------------------------------- further claims on parse_pos

\* The token at which parse_pos has failed.
FailingToken == split[idx]

\* C23, as claimed: whenever parse_pos rejects a token that is not a pair, the
\* message is illegal list value: "token", with the token as it was written.
C23_SingleQuotedAsWritten ==
    Failed /\ ~MatchesPair(FailingToken)
        => result.msg = <<"illegal list value: \"">> \o FailingToken \o <<"\"">>

ZeroMessage == <<"illegal list value: \"", "0", "\"">>

IsOrderMessage(m) == m # <<>> /\ m[1] = "First number in range ("

HasZeroComponent(t) ==
    IsPair(t) /\ (Value(PairLeft(t)) = 0 \/ Value(PairRight(t)) = 0)

\* C25, as claimed: a pair with a zero component always fails with
\* illegal list value: "0".
C25_Original ==
    \A i \in 1..Len(split) :
        HasZeroComponent(split[i]) => TokenFailsWith(i, ZeroMessage)

\* C25, amended: a pair with a zero component always fails, never with the
\* message of the ordering, and with illegal list value: "0" unless its first
\* component is larger than usize::MAX: the first component is parsed and
\* checked before the second, and both before the ordering.
C25_PositivityBeforeOrder ==
    \A i \in 1..Len(split) :
        HasZeroComponent(split[i])
            => /\ Done => result.tag = "Err"
               /\ Reached(i)
                      => /\ FailedAt(i)
                         /\ ~IsOrderMessage(result.msg)
                         /\ Value(PairLeft(split[i])) <= UsizeMax
                                => result.msg = ZeroMessage

\* C25 witness: parse_pos has failed with illegal list value: "0" at a pair
\* whose second component is zero and whose first is not lower.
C25_Witness ==
    /\ Failed
    /\ IsPair(FailingToken)
    /\ Value(PairLeft(FailingToken)) > 0
    /\ Value(PairRight(FailingToken)) = 0
    /\ result.msg = ZeroMessage

IsIllegalListValue(m) == m # <<>> /\ m[1] = "illegal list value: \""

Overflows(t) ==
    \/ IsNumeral(t) /\ Value(t) > UsizeMax
    \/ IsPair(t)
       /\ (Value(PairLeft(t)) > UsizeMax \/ Value(PairRight(t)) > UsizeMax)

\* C26: a numeral, or a pair with a component, whose value is larger than
\* usize::MAX makes parse_pos fail with an illegal list value error: no range
\* is ever made of it.
C26_OverflowRejected ==
    \A i \in 1..Len(split) :
        Overflows(split[i])
            => /\ Done => result.tag = "Err"
               /\ Reached(i) => FailedAt(i) /\ IsIllegalListValue(result.msg)
               /\ Len(acc) < i

\* C26 witness: parse_pos has failed at a numeral larger than usize::MAX that
\* would wrap around to a positive number.
C26_Witness ==
    /\ Failed
    /\ IsNumeral(FailingToken)
    /\ Value(FailingToken) > UsizeMax
    /\ Value(FailingToken) % (UsizeMax + 1) > 0
    /\ IsIllegalListValue(result.msg)

\* ------------------------------------------------------ composition claims

\* C24: the selection list is built by get_args before run starts and run
\* never modifies its Config: once run has started, config is the Config that
\* get_args returned, its list is the one the given value denotes, and no
\* step changes config.
C24_ConfigReadOnly ==
    [][/\ rpc # "idle" => config' = config
       /\ rpc' # "idle"
              => /\ config' = cfgRes'.config
                 /\ config'.extract.rs = ExpectedList(matches'.value)]_vars

\* C24 witness: run has returned Ok after two files that gave output, and
\* config is still the Config of get_args.
C24_Witness ==
    /\ Returned_run
    /\ ret.tag = "Ok"
    /\ fileIdx = 2
    /\ PerFile(config, config.files, 1) # <<>>
    /\ PerFile(config, config.files, 2) # <<>>
    /\ config = cfgRes.config

\* The list up to its k-th range, and the rest.
Front(pos, k) == SubSeq(pos, 1, k)

Back(pos, k) == SubSeq(pos, k + 1, Len(pos))

\* C27: extraction distributes over concatenation of selection lists: however
\* the list is cut in two, the output for the whole list is the output for the
\* front followed by the output for the back (characters, fields, and bytes
\* before decoding), and the empty list gives the empty output.
C27_Distributes ==
    /\ \A k \in 0..Len(positions) :
           /\ outChars.set
                  => outChars.val = extract_chars(line, Front(positions, k))
                                        \o extract_chars(line, Back(positions, k))
           /\ outBytes.set
                  => outBytes.res = selected_bytes(line, Front(positions, k))
                                        \o selected_bytes(line, Back(positions, k))
           /\ outFields.set
                  => outFields.val = extract_fields(record, Front(positions, k))
                                         \o extract_fields(record, Back(positions, k))
    /\ positions = <<>>
           => /\ outChars.set => outChars.val = <<>>
              /\ outBytes.set => outBytes.res = <<>> /\ outBytes.val = <<>>
              /\ outFields.set => outFields.val = <<>>

\* C27 witness: extract_chars has returned, for a list of two overlapping
\* ranges, the output of the first followed by the output of the second.
C27_Witness ==
    /\ outChars.set
    /\ line = <<"b", "c">>
    /\ positions = <<[start |-> 0, end |-> 2], [start |-> 1, end |-> 2]>>
    /\ outChars.val = <<"b", "c", "c">>

\* The units of an input at the 1-based positions a token denotes.
UnitsAt(units, t) ==
    LET a == IF IsNumeral(t) THEN Value(t) ELSE Value(PairLeft(t))
        b == IF IsNumeral(t) THEN Value(t) ELSE Value(PairRight(t))
    IN [j \in 1..(IF a > Len(units) THEN 0
                  ELSE Smaller(b, Len(units)) - a + 1) |-> units[a + j - 1]]

\* The units at the 1-based positions of a specification, token by token.
RECURSIVE OneBased(_, _, _)
OneBased(units, v, i) ==
    IF i > TokenCount(v) THEN <<>>
    ELSE UnitsAt(units, Token(v, i)) \o OneBased(units, v, i + 1)

\* What the user's notation selects of one line or record.
OneBasedItem(m, unit) ==
    IF m.present = "fields" THEN RecordItem(OneBased(unit, m.value, 1))
    ELSE IF m.present = "chars" THEN LineItem(OneBased(unit, m.value, 1))
    ELSE LineItem(LossyText(OneBased(str_bytes(unit), m.value, 1)))

\* C28: parser and extractor compose to the 1-based inclusive notation: every
\* line printed and every record written holds, token by token, exactly the
\* units of its input at positions n (token n) or a through b (token a-b)
\* that exist.
C28_OneBasedInclusive ==
    [][Emitted' # Emitted
           => Emitted' = Append(Emitted,
                                OneBasedItem(matches, Head(handle.rest).unit))]_vars

\* C28 witness: with --chars 2-12 a file of three-character lines and an empty
\* line has given the second and third character of each line.
C28_Witness ==
    /\ Returned_run
    /\ ret.tag = "Ok"
    /\ matches.present = "chars"
    /\ matches.value = <<"2", "-", "1", "2">>
    /\ matches.files = <<"A">>
    /\ stdout = <<LineItem(<<Tab, AAcute>>), LineItem(<<>>),
                  LineItem(<<Tab, "b">>)>>

\* Every character of the line is encoded in one byte.
IsAsciiLine(l) == \A i \in 1..Len(l) : l[i] # AAcute

\* C29: on a line of one-byte characters extract_bytes and extract_chars
\* return the same string, whatever the selection list.
C29_BytesEqualCharsOnAscii ==
    outChars.set /\ outBytes.set /\ IsAsciiLine(line)
        => outBytes.val = outChars.val

\* C29 witness: both extractors have returned the two characters of an ASCII
\* line in reverse order.
C29_Witness ==
    /\ outChars.set
    /\ outBytes.set
    /\ line = <<"b", "c">>
    /\ outChars.val = <<"c", "b">>
    /\ outBytes.val = <<"c", "b">>

\* No file of the list fails while it is read.
OnlyOpenFailures ==
    \A i \in 1..Len(config.files) :
        Unopenable(config.files[i])
            \/ ~FileFails(config, ContentIn(config.files, i))

\* C30: run terminates, and when the only failures are files that cannot be
\* opened it returns Ok.
C30_Terminates ==
    <>(Returned_run /\ (OnlyOpenFailures => ret.tag = "Ok"))

\* C30 witness: run has returned Ok over a list of two files of which none
\* could be opened, without output.
C30_Witness ==
    /\ Returned_run
    /\ ret.tag = "Ok"
    /\ Len(config.files) = 2
    /\ \A i \in 1..2 : Unopenable(config.files[i])
    /\ Len(stderr) = 2
    /\ stdout = <<>>

====
